---- MODULE Spec2Model ----
(***************************************************************************)
(* A model of seasnake's transitional AST (src/seasnake/model.py): the     *)
(* context tree with its name tables and lookup, the per-module import     *)
(* collector, the Class/Struct/Union builders and the emission routines.   *)
(*                                                                         *)
(* Python strings are sequences of code points (so that str.replace,       *)
(* str.split and sorted() are computed, not assumed); Python objects are   *)
(* records held in the arena `nodes`, addressed by their index, and the    *)
(* handle 0 stands for None.                                               *)
(***************************************************************************)
EXTENDS Integers, Sequences, FiniteSets, TLC

VARIABLES
    nodes,      \* the arena: every Declaration object constructed so far
    last,       \* the last call made by the front-end, with its outcome
    attached,   \* history: per module, the references whose add_imports ran against it
    registered  \* history: per class, the add_constructor calls in call order

vars == <<nodes, last, attached, registered>>

(***************************************************************************)
(* Strings                                                                 *)
(***************************************************************************)

\* Python's None where a string may stand (no code point is negative).
NoneStr == <<-1>>

\* Python's None where an expression may stand.
NoneExpr == [kind |-> "None"]

sA == <<65>>
sB == <<66>>
sX == <<88>>
sY == <<89>>
sR == <<82>>
sScope == <<58, 58>>                          \* '::'
sDot == <<46>>                                \* '.'
sCommaSpace == <<44, 32>>                     \* ', '
sSpace == <<32>>                              \* ' '
sConst == <<99, 111, 110, 115, 116>>          \* 'const'
sClass == <<99, 108, 97, 115, 115>>           \* 'class'
sVirtual == <<118, 105, 114, 116, 117, 97, 108>>  \* 'virtual'
sClassX == sClass \o sX                       \* 'classX', an identifier
sConstSpX == sConst \o sSpace \o sX           \* 'const X', an annotated name

\* s starts with pat.
StartsWith(s, pat) == Len(s) >= Len(pat) /\ SubSeq(s, 1, Len(pat)) = pat

\* pat occurs in s ('pat in s').
RECURSIVE Contains(_, _)
Contains(s, pat) ==
    IF Len(s) < Len(pat) THEN FALSE
    ELSE StartsWith(s, pat) \/ Contains(Tail(s), pat)

\* s.replace(pat, ''): the non-overlapping occurrences, found left to right,
\* are removed in one pass.
RECURSIVE Remove(_, _)
Remove(s, pat) ==
    IF Len(s) < Len(pat) \/ Len(s) = 0 THEN s
    ELSE IF StartsWith(s, pat) THEN Remove(SubSeq(s, Len(pat) + 1, Len(s)), pat)
    ELSE <<Head(s)>> \o Remove(Tail(s), pat)

\* s.split(sep): the pieces between the occurrences of sep, found left to right.
RECURSIVE SplitAcc(_, _, _)
SplitAcc(s, sep, cur) ==
    IF Len(s) = 0 THEN <<cur>>
    ELSE IF StartsWith(s, sep)
         THEN <<cur>> \o SplitAcc(SubSeq(s, Len(sep) + 1, Len(s)), sep, <<>>)
         ELSE SplitAcc(Tail(s), sep, Append(cur, Head(s)))

Split(s, sep) == SplitAcc(s, sep, <<>>)

\* sep.join(parts)
RECURSIVE Join(_, _)
Join(parts, sep) ==
    IF Len(parts) = 0 THEN <<>>
    ELSE IF Len(parts) = 1 THEN parts[1]
    ELSE parts[1] \o sep \o Join(Tail(parts), sep)

\* a < b on strings: code point by code point, a proper prefix first.
StrLess(a, b) ==
    \/ Len(a) < Len(b) /\ SubSeq(b, 1, Len(a)) = a
    \/ \E i \in 1..Len(a) :
          /\ i <= Len(b)
          /\ SubSeq(a, 1, i - 1) = SubSeq(b, 1, i - 1)
          /\ a[i] < b[i]

\* An ordering that can be gone through once: after an emission it is used up.
SortOnce(S) ==
    IF last.op = "output" THEN <<>>
    ELSE IF S = {} THEN <<>> ELSE <<CHOOSE x \in S : \A y \in S : x = y \/ StrLess(x, y)>>

\* sorted(S) for a set of strings.
RECURSIVE SortStrs(_)
SortStrs(S) ==
    IF S = {} THEN <<>>
    ELSE LET m == CHOOSE x \in S : \A y \in S : x = y \/ StrLess(x, y)
         IN <<m>> \o SortStrs(S \ {m})

(***************************************************************************)
(* OrderedDict: a sequence of [k, v] entries in insertion order            *)
(***************************************************************************)

ODKeys(od) == {od[i].k : i \in 1..Len(od)}

ODHas(od, key) == key \in ODKeys(od)

ODGet(od, key) == od[CHOOSE i \in 1..Len(od) : od[i].k = key].v

\* od[key] = val: a new key goes to the end, a known key keeps its place.
ODSet(od, key, val) ==
    IF ODHas(od, key)
    THEN [i \in 1..Len(od) |-> IF od[i].k = key THEN [k |-> key, v |-> val] ELSE od[i]]
    ELSE Append(od, [k |-> key, v |-> val])

(***************************************************************************)
(* Declaration, Context, Module, Variable                                  *)
(***************************************************************************)

ContextKinds ==
    {"Module", "Enumeration", "Function", "Struct", "Union", "Class",
     "Constructor", "Destructor", "Method", "Block", "If"}

IsContext(ns, d) == d # 0 /\ ns[d].kind \in ContextKinds

\* Declaration.__init__: the new object is bound under its name in its context.
Register(ns, context, name, obj) ==
    LET id == Len(ns) + 1
    IN IF context # 0 /\ name # NoneStr /\ name # <<>>
       THEN [Append(ns, obj) EXCEPT ![context].names = ODSet(@, name, id)]
       ELSE Append(ns, obj)

ModuleInit(name, context) ==
    [kind |-> "Module", context |-> context, name |-> name, names |-> <<>>,
     declarations |-> <<>>, imports |-> <<>>, submodules |-> <<>>]

VariableInit(context, name, value) ==
    [kind |-> "Variable", context |-> context, name |-> name, value |-> value]

\* A scoped lookup that starts at the context it is called on.
RootSelf(ns, d) == d

\* Declaration.root
RECURSIVE Root(_, _)
Root(ns, d) == IF ns[d].context = 0 THEN d ELSE Root(ns, ns[d].context)

\* The descriptors __getitem__ removes from the name it is given.
StripName(name) ==
    Remove(Remove(Remove(Remove(name, sConst), sClass), sVirtual), sSpace)

\* The outcome of a call: a value, or the exception it raised.
Ok(v) == [status |-> "ok", node |-> v]
Raise(e) == [status |-> e, node |-> 0]

\* Context.__getitem__, and the loop of its scoped branch (Descend).
RECURSIVE GetItem(_, _, _)
RECURSIVE Descend(_, _, _)
GetItem(ns, c, name) ==
    LET n == StripName(name)
    IN IF Contains(n, sScope)
       THEN Descend(ns, Root(ns, c), Split(n, sScope))
       ELSE IF ODHas(ns[c].names, n) THEN Ok(ODGet(ns[c].names, n))
       ELSE IF ns[c].context # 0 THEN GetItem(ns, ns[c].context, n)
       ELSE Raise("KeyError")

\* decl = decl[part] for each part: subscripting None or a Declaration that is
\* no Context raises TypeError.
Descend(ns, decl, parts) ==
    IF Len(parts) = 0 THEN Ok(decl)
    ELSE IF ~IsContext(ns, decl) THEN Raise("TypeError")
    ELSE LET r == GetItem(ns, decl, Head(parts))
         IN IF r.status # "ok" THEN r ELSE Descend(ns, r.node, Tail(parts))

\* Context.declare
DeclareNames(names, name) == ODSet(names, name, 0)

(***************************************************************************)
(* The scope machine: contexts are built, names declared and looked up     *)
(***************************************************************************)

ModuleNames == {sA, sB}

VariableNames == {sX, sClassX}

ScopeNames == ModuleNames \cup VariableNames

Queries ==
    { sX, sClassX, sConstSpX, sB \o sScope \o sX,
      sA \o sScope \o sB \o sScope \o sX, sA \o sScope \o sX }


MaxScopeSize == 4

\* The names bound to no value (declare's placeholders) over all the tables.
Placeholders(ns) ==
    {<<c, i>> \in (1..Len(ns)) \X (1..Cardinality(ScopeNames)) :
        /\ IsContext(ns, c)
        /\ i <= Len(ns[c].names)
        /\ ns[c].names[i].v = 0}

\* The size of the tree: its objects and its placeholders.
ScopeSize(ns) == Len(ns) + Cardinality(Placeholders(ns))

NoCall == [op |-> "none"]

InitScope ==
    /\ \E r \in {sR, sA} : nodes = <<ModuleInit(r, 0)>>
    /\ last = NoCall
    /\ attached = <<>>
    /\ registered = <<>>

\* Module(name, context=c)
NewModule(c, name) ==
    /\ ScopeSize(nodes) < MaxScopeSize
    /\ IsContext(nodes, c)
    /\ nodes' = Register(nodes, c, name, ModuleInit(name, c))
    /\ last' = [op |-> "Module", node |-> Len(nodes) + 1]
    /\ UNCHANGED <<attached, registered>>

\* Variable(c, name)
NewVariable(c, name) ==
    /\ ScopeSize(nodes) < MaxScopeSize
    /\ IsContext(nodes, c)
    /\ nodes' = Register(nodes, c, name, VariableInit(c, name, NoneExpr))
    /\ last' = [op |-> "Variable", node |-> Len(nodes) + 1]
    /\ UNCHANGED <<attached, registered>>

\* c.declare(name)
Declare(c, name) ==
    /\ IsContext(nodes, c)
    /\ ScopeSize(nodes) < MaxScopeSize
    /\ nodes' = [nodes EXCEPT ![c].names = DeclareNames(@, name)]
    /\ last' = [op |-> "declare", ctx |-> c, name |-> name]
    /\ UNCHANGED <<attached, registered>>

\* c[name]: the tree is read, not changed; the outcome is GetItem on this state.
Lookup(c, name) ==
    /\ IsContext(nodes, c)
    /\ last' = [op |-> "getitem", ctx |-> c, name |-> name]
    /\ UNCHANGED <<nodes, attached, registered>>

NextScope ==
    \/ \E c \in 1..Len(nodes), n \in ModuleNames : NewModule(c, n)
    \/ \E c \in 1..Len(nodes), n \in VariableNames : NewVariable(c, n)
    \/ \E c \in 1..Len(nodes), n \in ScopeNames : Declare(c, n)
    \/ \E c \in 1..Len(nodes), q \in Queries : Lookup(c, q)

SpecScope == InitScope /\ [][NextScope]_vars

(***************************************************************************)
(* Class, Method and the references with their import contributions        *)
(***************************************************************************)

sM == <<77>>
sN == <<78>>
sK == <<75>>
sS == <<83>>
sT == <<84>>
sF == <<102>>                                 \* 'f'
sP == <<112>>                                 \* 'p'
sQ == <<113>>                                 \* 'q'
sLowX == <<120>>                              \* 'x'
sLowY == <<121>>                              \* 'y'
sZero == <<48>>                               \* '0'
sInt == <<105, 110, 116>>                     \* 'int'
sFloat == <<102, 108, 111, 97, 116>>          \* 'float'
sPoint == <<80, 111, 105, 110, 116>>          \* 'Point'
sInner == <<73, 110, 110, 101, 114>>          \* 'Inner'
sGeometry == <<103, 101, 111, 109, 101, 116, 114, 121>>  \* 'geometry'
sArg == <<97, 114, 103>>                      \* 'arg'
sEqNone == <<61, 78, 111, 110, 101>>          \* '=None'

\* text(n) for a natural number: its decimal digits.
RECURSIVE Text(_)
Text(n) == IF n < 10 THEN <<48 + n>> ELSE Text(n \div 10) \o <<48 + (n % 10)>>

\* Declaration.full_name
RECURSIVE FullName(_, _)
FullName(ns, d) ==
    IF ns[d].context # 0
    THEN FullName(ns, ns[d].context) \o sScope \o ns[d].name
    ELSE ns[d].name

\* The loop 'self.module = context; while not isinstance(self.module, Module)'.
RECURSIVE OwningModule(_, _)
OwningModule(ns, c) ==
    IF ns[c].kind = "Module" THEN c ELSE OwningModule(ns, ns[c].context)

\* Class.__init__ (the dict of constructors is kept as a set of entries).
ClassInit(ns, context, name) ==
    [kind |-> "Class", context |-> context, name |-> name, names |-> <<>>,
     module |-> OwningModule(ns, context), superclass |-> NoneStr,
     constructors |-> {}, destructor |-> 0,
     attributes |-> <<>>, methods |-> <<>>, classes |-> <<>>]

\* Method.__init__; statements is None (written <<>>) or a list that is not empty.
MethodInit(klass, name, pure_virtual, static) ==
    [kind |-> "Method", context |-> klass, name |-> name, names |-> <<>>,
     parameters |-> <<>>, statements |-> <<>>,
     pure_virtual |-> pure_virtual, static |-> static]

\* Struct.__init__
StructInit(ns, context, name) ==
    [ClassInit(ns, context, name) EXCEPT !.kind = "Struct"]

\* Union.__init__: a Union has neither constructors nor a destructor slot.
UnionInit(ns, context, name) ==
    [kind |-> "Union", context |-> context, name |-> name, names |-> <<>>,
     module |-> OwningModule(ns, context), superclass |-> NoneStr,
     attributes |-> <<>>, methods |-> <<>>, classes |-> <<>>]

\* Attribute.__init__
AttributeInit(klass, name, value) ==
    [kind |-> "Attribute", context |-> klass, name |-> name, value |-> value]

\* Constructor.__init__: no name; statements is the empty list.
ConstructorInit(klass) ==
    [kind |-> "Constructor", context |-> klass, name |-> NoneStr, names |-> <<>>,
     parameters |-> <<>>, statements |-> <<>>]

\* Destructor.__init__: no name; statements is None (written <<>>) or a list
\* that is not empty.
DestructorInit(klass) ==
    [kind |-> "Destructor", context |-> klass, name |-> NoneStr, names |-> <<>>,
     parameters |-> <<>>, statements |-> <<>>]

\* The marker of a parameter without default.
UNDEFINED == [kind |-> "UNDEFINED"]

\* Parameter.__init__
ParameterInit(function, name, ctype, default) ==
    [kind |-> "Parameter", context |-> function, name |-> name,
     ctype |-> ctype, default |-> default]

\* Return.__init__: the value is None until add_expression sets it.
Return == [kind |-> "Return", value |-> NoneExpr]

\* VariableReference(ref, node) and TypeReference(ref, node); module_name is
\* not an attribute of the object until add_imports has set it.
VariableReference(ref) ==
    [kind |-> "VariableReference", ref |-> ref, module_name |-> NoneStr]

TypeReference(ref) ==
    [kind |-> "TypeReference", ref |-> ref, module_name |-> NoneStr]

\* The loop over the parts of a reference in add_imports: candidate[part] for
\* each part, the Module-typed prefix going to scope_parts, the rest to name_parts.
RECURSIVE WalkParts(_, _, _, _, _, _)
WalkParts(ns, candidate, parts, decl_mod, name_parts, scope_parts) ==
    IF Len(parts) = 0
    THEN [status |-> "ok", decl_mod |-> decl_mod,
          name_parts |-> name_parts, scope_parts |-> scope_parts]
    ELSE IF ~IsContext(ns, candidate)
    THEN [status |-> "TypeError", decl_mod |-> decl_mod,
          name_parts |-> name_parts, scope_parts |-> scope_parts]
    ELSE LET r == GetItem(ns, candidate, Head(parts))
         IN IF r.status # "ok"
            THEN [status |-> r.status, decl_mod |-> decl_mod,
                  name_parts |-> name_parts, scope_parts |-> scope_parts]
            ELSE IF decl_mod = 0 /\ r.node # 0 /\ ns[r.node].kind = "Module"
            THEN WalkParts(ns, r.node, Tail(parts), decl_mod, name_parts,
                           Append(scope_parts, Head(parts)))
            ELSE WalkParts(ns, r.node, Tail(parts),
                           IF decl_mod = 0 THEN candidate ELSE decl_mod,
                           Append(name_parts, Head(parts)), scope_parts)

\* An import is asked for whatever module declares the symbol.
NeedsImportAlways(ns, module, decl_mod) == TRUE

\* 'if module.full_name != decl_mod.full_name'
NeedsImport(ns, module, decl_mod) == FullName(ns, module) # FullName(ns, decl_mod)

\* What add_imports(module) of a reference does: the exception it raises, or
\* the module_name it sets and the import (path, symbol) it asks for, if any.
NoImport == [status |-> "ok", module_name |-> NoneStr, add |-> FALSE,
             path |-> <<>>, symbol |-> <<>>]

RefAddImports(ns, module, expr) ==
    LET parts == Split(expr.ref, sScope)
        root == Root(ns, module)
        w == WalkParts(ns, root, parts, 0, <<>>, <<ns[root].name>>)
    IN IF expr.kind = "VariableReference" /\ Len(parts) <= 1
       THEN [NoImport EXCEPT !.module_name = expr.ref]
       ELSE IF w.status # "ok" THEN [NoImport EXCEPT !.status = w.status]
       ELSE IF Len(w.name_parts) = 0 THEN [NoImport EXCEPT !.status = "IndexError"]
       ELSE [status |-> "ok",
             module_name |-> Join(w.name_parts, sDot),
             add |-> NeedsImport(ns, module, w.decl_mod),
             path |-> Join(w.scope_parts, sDot),
             symbol |-> w.name_parts[1]]

\* statement.add_imports(module) for the statements of the model: a Literal adds
\* nothing, a Return without value adds nothing.
ExprAddImports(ns, module, expr) ==
    IF expr.kind \in {"VariableReference", "TypeReference"}
    THEN RefAddImports(ns, module, expr)
    ELSE NoImport

\* The statement after its add_imports: a reference has its module_name set.
Resolved(expr, r) ==
    IF expr.kind \in {"VariableReference", "TypeReference"}
    THEN [expr EXCEPT !.module_name = r.module_name]
    ELSE expr

\* Module.add_import: self.imports.setdefault(path, set()).add(symbol)
AddImport(imports, path, symbol) ==
    IF path \in DOMAIN imports
    THEN [imports EXCEPT ![path] = @ \cup {symbol}]
    ELSE (path :> {symbol}) @@ imports

(***************************************************************************)
(* The import machine: symbols are declared in the modules of a tree and   *)
(* statements holding references are added to a method                     *)
(***************************************************************************)

MaxSymbols == 2

MaxStatements == 3

SymbolNames == {sS, sT}

References ==
    { VariableReference(sN \o sScope \o sS), TypeReference(sN \o sScope \o sS),
      TypeReference(sN \o sScope \o sT), VariableReference(sM \o sScope \o sS),
      VariableReference(sS), TypeReference(sS) }

\* No call has raised: an exception ends the translation unit.
Alive == IF "status" \in DOMAIN last THEN last.status = "ok" ELSE TRUE

\* The front-end has built root R with the modules M and N, and a class K with
\* a method f in the root or in M.
InitImports ==
    /\ \E home \in {1, 2} :
          LET n1 == <<ModuleInit(sR, 0)>>
              n2 == Register(n1, 1, sM, ModuleInit(sM, 1))
              n3 == Register(n2, 1, sN, ModuleInit(sN, 1))
              n4 == Register(n3, home, sK, ClassInit(n3, home, sK))
          IN nodes = Register(n4, 4, sF, MethodInit(4, sF, FALSE, FALSE))
    /\ last = NoCall
    /\ attached = <<>>
    /\ registered = <<>>

Symbols(ns) == {d \in 1..Len(ns) : ns[d].kind = "Variable"}

\* Variable(m, name): a symbol is declared in module m.
NewSymbol(m, name) ==
    /\ Alive
    /\ nodes[m].kind = "Module"
    /\ Cardinality(Symbols(nodes)) < MaxSymbols
    /\ nodes' = Register(nodes, m, name, VariableInit(m, name, NoneExpr))
    /\ last' = [op |-> "Variable", node |-> Len(nodes) + 1, status |-> "ok"]
    /\ UNCHANGED <<attached, registered>>

\* Method.add_statement(statement): the statement is appended, then its imports
\* are added to the module of the method's class.
MethodAddStatement(f, expr) ==
    /\ Alive
    /\ nodes[f].kind = "Method"
    /\ Len(nodes[f].statements) < MaxStatements
    /\ LET module == nodes[nodes[f].context].module
           r == ExprAddImports(nodes, module, expr)
       IN /\ nodes' =
                 [nodes EXCEPT
                    ![f].statements = Append(@, Resolved(expr, r)),
                    ![module].imports =
                        IF r.status = "ok" /\ r.add
                        THEN AddImport(@, r.path, r.symbol) ELSE @]
          /\ last' = [op |-> "add_statement", node |-> f, status |-> r.status]
          /\ attached' = Append(attached, [module |-> module, expr |-> expr])
    /\ UNCHANGED registered

NextImports ==
    \/ \E m \in 1..Len(nodes), n \in SymbolNames : NewSymbol(m, n)
    \/ \E f \in 1..Len(nodes), e \in References : MethodAddStatement(f, e)

SpecImports == InitImports /\ [][NextImports]_vars


(***************************************************************************)
(* Emission: the calls an output routine makes on the Writer               *)
(***************************************************************************)

\* One call on the Writer; write carries its format string and the strings
\* put into it.
Call(name) == [call |-> name, fmt |-> "", args |-> <<>>]

Write(fmt, args) == [call |-> "write", fmt |-> fmt, args |-> args]

\* The result of an output routine: the calls made, and "ok" or the exception
\* that cut them short.
Emitted(calls) == [status |-> "ok", calls |-> calls]

\* r, then (if r did not raise) q.
Then(r, q) ==
    IF r.status # "ok" THEN r
    ELSE [status |-> q.status, calls |-> r.calls \o q.calls]

\* Literal(value): text(self.value)
Literal(value) == [kind |-> "Literal", value |-> value]

\* The operator a token is written as when the table does not hold it: itself.
KeepToken(table, name) == name

\* dict.get(name, name): the table's entry, or the token itself.
Translate(table, name) == IF name \in DOMAIN table THEN table[name] ELSE name

\* The python_op table of UnaryOperation.output.
PythonUnaryOps ==
    (<<33>> :> <<110, 111, 116, 32>>)    \* '!': 'not '
    @@ (<<126>> :> <<126>>)    \* '~': '~'

\* The python_op table of BinaryOperation.output.
PythonBinaryOps ==
    (<<61>> :> <<32, 61, 32>>)    \* '=': ' = '
    @@ (<<43>> :> <<32, 43, 32>>)    \* '+': ' + '
    @@ (<<45>> :> <<32, 45, 32>>)    \* '-': ' - '
    @@ (<<42>> :> <<32, 42, 32>>)    \* '*': ' * '
    @@ (<<47>> :> <<32, 47, 32>>)    \* '/': ' / '
    @@ (<<37>> :> <<32, 37, 32>>)    \* '%': ' % '
    @@ (<<61, 61>> :> <<32, 61, 61, 32>>)    \* '==': ' == '
    @@ (<<33, 61>> :> <<32, 33, 61, 32>>)    \* '!=': ' != '
    @@ (<<62>> :> <<32, 62, 32>>)    \* '>': ' > '
    @@ (<<60>> :> <<32, 60, 32>>)    \* '<': ' < '
    @@ (<<62, 61>> :> <<32, 62, 61, 32>>)    \* '>=': ' >= '
    @@ (<<60, 61>> :> <<32, 60, 61, 32>>)    \* '<=': ' <= '
    @@ (<<38>> :> <<32, 38, 32>>)    \* '&': ' & '
    @@ (<<124>> :> <<32, 124, 32>>)    \* '|': ' | '
    @@ (<<94>> :> <<32, 94, 32>>)    \* '^': ' ^ '
    @@ (<<60, 60>> :> <<32, 60, 60, 32>>)    \* '<<': ' << '
    @@ (<<62, 62>> :> <<32, 62, 62, 32>>)    \* '>>': ' >> '
    @@ (<<43, 61>> :> <<32, 43, 61, 32>>)    \* '+=': ' += '
    @@ (<<45, 61>> :> <<32, 45, 61, 32>>)    \* '-=': ' -= '
    @@ (<<42, 61>> :> <<32, 42, 61, 32>>)    \* '*=': ' *= '
    @@ (<<47, 61>> :> <<32, 47, 61, 32>>)    \* '/=': ' /= '
    @@ (<<37, 61>> :> <<32, 37, 61, 32>>)    \* '%=': ' %= '
    @@ (<<38, 61>> :> <<32, 38, 61, 32>>)    \* '&=': ' &= '
    @@ (<<124, 61>> :> <<32, 124, 61, 32>>)    \* '|=': ' |= '
    @@ (<<94, 61>> :> <<32, 94, 61, 32>>)    \* '^=': ' ^= '
    @@ (<<60, 60, 61>> :> <<32, 60, 60, 61, 32>>)    \* '<<=': ' <<= '
    @@ (<<62, 62, 61>> :> <<32, 62, 62, 61, 32>>)    \* '>>=': ' >>= '
    @@ (<<38, 38>> :> <<32, 97, 110, 100, 32>>)    \* '&&': ' and '
    @@ (<<124, 124>> :> <<32, 111, 114, 32>>)    \* '||': ' or '

\* The typekinds Cast.output turns into bool(...), str(...), int(...) and
\* float(...), by the names of the members of clang's TypeKind.
BoolKinds == {"BOOL"}

StrKinds == {"CHAR_U", "UCHAR", "CHAR16", "CHAR32", "CHAR_S", "SCHAR", "WCHAR"}

IntKinds ==
    {"USHORT", "UINT", "ULONG", "ULONGLONG", "UINT128",
     "SHORT", "INT", "LONG", "LONGLONG", "INT128"}

FloatKinds == {"FLOAT", "DOUBLE", "LONGDOUBLE"}

\* out.write(s) for a string given by its code points.
WriteText(s) == Write("%s", <<s>>)

\* Expression.output for the expressions of the model; a reference whose
\* add_imports never ran has no module_name to write.
RECURSIVE OutputExpr(_)
OutputExpr(e) ==
    IF e.kind = "Literal" THEN Emitted(<<Write("%s", <<e.value>>)>>)
    ELSE IF e.kind = "Return"
    THEN Then(Emitted(<<Write("return", <<>>)>>),
              Then(IF e.value.kind = "None" THEN Emitted(<<>>)
                   ELSE Then(Emitted(<<Write(" ", <<>>)>>), OutputExpr(e.value)),
                   Emitted(<<Call("clear_line")>>)))
    ELSE IF e.kind = "UnaryOperation"
    THEN Then(Emitted(<<WriteText(<<>>), WriteText(Translate(PythonUnaryOps, e.name))>>),
              OutputExpr(e.value))
    ELSE IF e.kind = "BinaryOperation"
    THEN Then(OutputExpr(e.lvalue),
              Then(Emitted(<<WriteText(Translate(PythonBinaryOps, e.name))>>),
                   OutputExpr(e.rvalue)))
    ELSE IF e.kind = "ArraySubscript"
    THEN Then(OutputExpr(e.value),
              Then(Emitted(<<WriteText(<<91>>)>>),
                   Then(OutputExpr(e.index), Emitted(<<WriteText(<<93>>)>>))))
    ELSE IF e.kind = "Cast"
    THEN LET call == IF e.typekind \in BoolKinds THEN <<98, 111, 111, 108, 40>>
                     ELSE IF e.typekind \in StrKinds THEN <<115, 116, 114, 40>>
                     ELSE IF e.typekind \in IntKinds THEN <<105, 110, 116, 40>>
                     ELSE IF e.typekind \in FloatKinds THEN <<102, 108, 111, 97, 116, 40>>
                     ELSE <<>>
         IN IF call = <<>> THEN OutputExpr(e.value)
            ELSE Then(Emitted(<<WriteText(call)>>),
                      Then(OutputExpr(e.value), Emitted(<<WriteText(<<41>>)>>)))
    ELSE IF e.module_name = NoneStr
    THEN [status |-> "AttributeError", calls |-> <<>>]
    ELSE Emitted(<<Write("%s", <<e.module_name>>)>>)

\* 'for statement in self.statements: out.clear_line(); statement.output(out)'
RECURSIVE OutputStatements(_)
OutputStatements(stmts) ==
    IF Len(stmts) = 0 THEN Emitted(<<>>)
    ELSE Then(Emitted(<<Call("clear_line")>>),
              Then(OutputExpr(Head(stmts)), OutputStatements(Tail(stmts))))

\* A body left empty: nothing is written.
OutputNothing == Emitted(<<>>)

\* 'out.clear_line(); out.write('pass')'
OutputPass == Emitted(<<Call("clear_line"), Write("pass", <<>>)>>)

\* Variable.output
OutputVariable(ns, v) ==
    Then(Emitted(<<Write("%s = ", <<ns[v].name>>)>>),
         Then(IF ns[v].value.kind = "None" THEN Emitted(<<Write("None", <<>>)>>)
              ELSE OutputExpr(ns[v].value),
              Emitted(<<Call("clear_line")>>)))

\* The loop over sorted(self.imports) in Module.output: sorting a set that
\* holds None with a string, and joining None, raise TypeError.
RECURSIVE OutputImports(_, _)
OutputImports(imports, paths) ==
    IF Len(paths) = 0 THEN Emitted(<<>>)
    ELSE LET path == Head(paths)
             line ==
                 IF imports[path] # {}
                 THEN IF NoneStr \in imports[path]
                      THEN [status |-> "TypeError", calls |-> <<>>]
                      ELSE Emitted(<<Write("from %s import %s",
                                 <<path, Join(SortStrs(imports[path]), sCommaSpace)>>)>>)
                 ELSE Emitted(<<Write("import %s", <<path>>)>>)
         IN Then(line, Then(Emitted(<<Call("clear_line")>>),
                            OutputImports(imports, Tail(paths))))

\* Attribute.output(out, init)
OutputAttribute(ns, a, init) ==
    LET name == ns[a].name
        value == ns[a].value
    IN Then(Emitted(<<Write("self.%s = ", <<name>>)>>),
            Then(IF init
                 THEN IF value.kind # "None"
                      THEN Then(Emitted(<<Write("%s if %s else ", <<name, name>>)>>),
                                OutputExpr(value))
                      ELSE Emitted(<<Write("%s", <<name>>)>>)
                 ELSE IF value.kind # "None" THEN OutputExpr(value)
                      ELSE Emitted(<<Write("None", <<>>)>>),
                 Emitted(<<Call("clear_line")>>)))

\* Parameter.output
OutputParameter(ns, p) ==
    Then(Emitted(<<Write("%s", <<ns[p].name>>)>>),
         IF ns[p].default # UNDEFINED
         THEN Then(Emitted(<<Write("=", <<>>)>>), OutputExpr(ns[p].default))
         ELSE Emitted(<<>>))

\* 'p.name if p.name else 'arg%s' % (i + 1)' over the parameters from the i-th on.
RECURSIVE ParameterNames(_, _, _)
ParameterNames(ns, ps, i) ==
    IF i > Len(ps) THEN <<>>
    ELSE << IF ns[ps[i]].name # NoneStr /\ ns[ps[i]].name # <<>>
            THEN ns[ps[i]].name ELSE sArg \o Text(i) >>
         \o ParameterNames(ns, ps, i + 1)

\* The loop of Constructor.output over the attributes of its class: those with
\* a value are written, in the order of the table.
RECURSIVE OutputInitialised(_, _)
OutputInitialised(ns, attrs) ==
    IF Len(attrs) = 0 THEN Emitted(<<>>)
    ELSE Then(IF ns[Head(attrs).v].value.kind # "None"
              THEN Then(Emitted(<<Call("clear_line")>>),
                        OutputAttribute(ns, Head(attrs).v, FALSE))
              ELSE Emitted(<<>>),
              OutputInitialised(ns, Tail(attrs)))

\* Constructor.output
OutputConstructor(ns, c) ==
    LET ps == ns[c].parameters
        attrs == ns[ns[c].context].attributes
        stmts == ns[c].statements
        has_init == \E i \in 1..Len(attrs) : ns[attrs[i].v].value.kind # "None"
    IN Then(Emitted(<<Call("clear_minor_block"),
                      IF Len(ps) > 0
                      THEN Write("def __init__(self, %s):",
                                 <<Join(ParameterNames(ns, ps, 1), sCommaSpace)>>)
                      ELSE Write("def __init__(self):", <<>>),
                      Call("start_block")>>),
            Then(IF Len(attrs) > 0 \/ Len(stmts) > 0
                 THEN Then(OutputInitialised(ns, attrs),
                           IF Len(stmts) > 0 THEN OutputStatements(stmts)
                           ELSE IF ~has_init THEN OutputPass
                           ELSE Emitted(<<>>))
                 ELSE OutputPass,
                 Emitted(<<Call("end_block")>>)))

\* Destructor.output
OutputDestructor(ns, d) ==
    Then(Emitted(<<Call("clear_minor_block"), Write("def __del__(self):", <<>>),
                   Call("start_block")>>),
         Then(IF Len(ns[d].statements) > 0 THEN OutputStatements(ns[d].statements)
              ELSE OutputPass,
              Emitted(<<Call("end_block")>>)))

\* The loop of Method.output over the parameters from the i-th on.
RECURSIVE OutputParameters(_, _, _, _)
OutputParameters(ns, ps, i, static) ==
    IF i > Len(ps) THEN Emitted(<<>>)
    ELSE Then(IF i # 1 \/ ~static THEN Emitted(<<Write(", ", <<>>)>>)
              ELSE Emitted(<<>>),
              Then(OutputParameter(ns, ps[i]),
                   OutputParameters(ns, ps, i + 1, static)))

\* Method.output
OutputMethod(ns, f) ==
    Then(Emitted(<<Call("clear_minor_block")>>
                 \o (IF ns[f].static
                     THEN <<Write("@staticmethod", <<>>), Call("clear_line"),
                            Write("def %s(", <<ns[f].name>>)>>
                     ELSE <<Write("def %s(self", <<ns[f].name>>)>>)),
         Then(OutputParameters(ns, ns[f].parameters, 1, ns[f].static),
              Then(Emitted(<<Write("):", <<>>), Call("start_block")>>),
                   Then(IF Len(ns[f].statements) > 0
                        THEN OutputStatements(ns[f].statements)
                        ELSE IF ns[f].pure_virtual
                        THEN Emitted(<<Call("clear_line"),
                                       Write("raise NotImplementedError()", <<>>)>>)
                        ELSE OutputPass,
                        Emitted(<<Call("end_block")>>)))))

\* a < b on tuples of strings: element by element, a proper prefix first.
SigLess(a, b) ==
    \/ Len(a) < Len(b) /\ SubSeq(b, 1, Len(a)) = a
    \/ \E i \in 1..Len(a) :
          /\ i <= Len(b)
          /\ SubSeq(a, 1, i - 1) = SubSeq(b, 1, i - 1)
          /\ StrLess(a[i], b[i])

\* sorted(self.constructors.items()): the keys of a dict differ, so the order
\* of the keys decides.
RECURSIVE SortedItems(_)
SortedItems(items) ==
    IF items = {} THEN <<>>
    ELSE LET m == CHOOSE x \in items : \A y \in items : x = y \/ SigLess(x.k, y.k)
         IN <<m>> \o SortedItems(items \ {m})

\* The header of Class.output and Struct.output.
OutputHeader(ns, k) ==
    Emitted(<<Call("clear_major_block"),
              IF ns[k].superclass # NoneStr /\ ns[k].superclass # <<>>
              THEN Write("class %s(%s):", <<ns[k].name, ns[k].superclass>>)
              ELSE Write("class %s:", <<ns[k].name>>),
              Call("start_block")>>)

\* 'params = ''.join(', %s=None' % name for name in self.attributes.keys())'
RECURSIVE AttributeParams(_)
AttributeParams(attrs) ==
    IF Len(attrs) = 0 THEN <<>>
    ELSE sCommaSpace \o Head(attrs).k \o sEqNone
         \o AttributeParams(Tail(attrs))

\* The loop over the attributes inside the synthesized initializer.
RECURSIVE OutputInitAttributes(_, _)
OutputInitAttributes(ns, attrs) ==
    IF Len(attrs) = 0 THEN Emitted(<<>>)
    ELSE Then(Emitted(<<Call("clear_line")>>),
              Then(OutputAttribute(ns, Head(attrs).v, TRUE),
                   OutputInitAttributes(ns, Tail(attrs))))

\* The initializer Struct.output and Union.output synthesize from the attributes.
OutputInitializer(ns, k) ==
    IF Len(ns[k].attributes) = 0 THEN Emitted(<<>>)
    ELSE Then(Emitted(<<Call("clear_line"),
                        Write("def __init__(self%s):",
                              <<AttributeParams(ns[k].attributes)>>),
                        Call("start_block")>>),
              Then(OutputInitAttributes(ns, ns[k].attributes),
                   Emitted(<<Call("end_block")>>)))

\* The loop over the sorted constructors in Class.output.
RECURSIVE OutputConstructors(_, _)
OutputConstructors(ns, items) ==
    IF Len(items) = 0 THEN Emitted(<<>>)
    ELSE Then(OutputConstructor(ns, Head(items).v),
              OutputConstructors(ns, Tail(items)))

\* The loop over self.methods.
RECURSIVE OutputMethods(_, _)
OutputMethods(ns, methods) ==
    IF Len(methods) = 0 THEN Emitted(<<>>)
    ELSE Then(OutputMethod(ns, Head(methods).v), OutputMethods(ns, Tail(methods)))

\* decl.output(out) for a declaration filed in a module or a class; the loop
\* over self.classes; Class.output, Struct.output and Union.output.
RECURSIVE OutputDeclaration(_, _)
RECURSIVE OutputClasses(_, _)
RECURSIVE OutputClass(_, _)
RECURSIVE OutputStruct(_, _)
RECURSIVE OutputUnion(_, _)
OutputDeclaration(ns, d) ==
    IF ns[d].kind = "Class" THEN OutputClass(ns, d)
    ELSE IF ns[d].kind = "Struct" THEN OutputStruct(ns, d)
    ELSE IF ns[d].kind = "Union" THEN OutputUnion(ns, d)
    ELSE OutputVariable(ns, d)

OutputClasses(ns, classes) ==
    IF Len(classes) = 0 THEN Emitted(<<>>)
    ELSE Then(OutputDeclaration(ns, Head(classes).v),
              OutputClasses(ns, Tail(classes)))

OutputClass(ns, k) ==
    Then(OutputHeader(ns, k),
         Then(IF \/ ns[k].constructors # {} \/ ns[k].destructor # 0
                 \/ Len(ns[k].classes) > 0 \/ Len(ns[k].methods) > 0
              THEN Then(OutputConstructors(ns, SortedItems(ns[k].constructors)),
                        Then(IF ns[k].destructor # 0
                             THEN OutputDestructor(ns, ns[k].destructor)
                             ELSE Emitted(<<>>),
                             Then(OutputClasses(ns, ns[k].classes),
                                  OutputMethods(ns, ns[k].methods))))
              ELSE OutputPass,
              Emitted(<<Call("end_block")>>)))

OutputStruct(ns, k) ==
    Then(OutputHeader(ns, k),
         Then(IF \/ Len(ns[k].attributes) > 0 \/ ns[k].destructor # 0
                 \/ Len(ns[k].classes) > 0 \/ Len(ns[k].methods) > 0
              THEN Then(OutputInitializer(ns, k),
                        Then(IF ns[k].destructor # 0
                             THEN OutputDestructor(ns, ns[k].destructor)
                             ELSE Emitted(<<>>),
                             Then(OutputClasses(ns, ns[k].classes),
                                  OutputMethods(ns, ns[k].methods))))
              ELSE OutputPass,
              Emitted(<<Call("end_block")>>)))

OutputUnion(ns, k) ==
    Then(Emitted(<<Call("clear_major_block"), Write("class %s:", <<ns[k].name>>),
                   Call("start_block")>>),
         Then(IF \/ Len(ns[k].attributes) > 0
                 \/ Len(ns[k].classes) > 0 \/ Len(ns[k].methods) > 0
              THEN Then(OutputInitializer(ns, k),
                        Then(OutputClasses(ns, ns[k].classes),
                             OutputMethods(ns, ns[k].methods)))
              ELSE Then(OutputPass, Emitted(<<Call("end_block")>>)),
              Emitted(<<Call("end_block")>>)))

\* The loop over self.declarations in Module.output.
RECURSIVE OutputDeclarations(_, _)
OutputDeclarations(ns, decls) ==
    IF Len(decls) = 0 THEN Emitted(<<>>)
    ELSE Then(Emitted(<<Call("clear_minor_block")>>),
              Then(OutputDeclaration(ns, Head(decls).v),
                   OutputDeclarations(ns, Tail(decls))))

\* Module.output
OutputModule(ns, m) ==
    Then(OutputImports(ns[m].imports, SortStrs(DOMAIN ns[m].imports)),
         Then(Emitted(<<Call("clear_major_block")>>),
              Then(OutputDeclarations(ns, ns[m].declarations),
                   Emitted(<<Call("clear_line")>>))))

(***************************************************************************)
(* The module machine: imports are recorded, variables filed, the module   *)
(* emitted                                                                 *)
(***************************************************************************)

sOs == <<111, 115>>                           \* 'os'

ImportPaths == {sOs, sR \o sDot \o sN}

ImportSymbols == {sS, sT, NoneStr}

InitModule ==
    /\ nodes = <<ModuleInit(sR, 0)>>
    /\ last = NoCall
    /\ attached = <<>>
    /\ registered = <<>>

\* module.add_import(path, symbol); symbol is None when it is left out.
AddImportCall(m, path, symbol) ==
    /\ Alive
    /\ nodes[m].kind = "Module"
    /\ nodes' = [nodes EXCEPT ![m].imports = AddImport(@, path, symbol)]
    /\ last' = [op |-> "add_import", node |-> m, status |-> "ok"]
    /\ UNCHANGED <<attached, registered>>

\* Variable.add_to_context(context) -> Module.add_declaration(decl); the
\* variables of this machine have no value, so add_imports adds nothing.
VariableAddToContext(v) ==
    /\ Alive
    /\ nodes[v].kind = "Variable"
    /\ LET m == nodes[v].context
       IN nodes' = [nodes EXCEPT ![m].declarations = ODSet(@, nodes[v].name, v)]
    /\ last' = [op |-> "add_to_context", node |-> v, status |-> "ok"]
    /\ UNCHANGED <<attached, registered>>

\* module.output(out) against a fresh Writer: the tree is read, not changed;
\* the calls made are OutputModule on this state.
ModuleOutput(m) ==
    /\ Alive
    /\ nodes[m].kind = "Module"
    /\ last' = [op |-> "output", node |-> m, status |-> OutputModule(nodes, m).status]
    /\ UNCHANGED <<nodes, attached, registered>>

NextModule ==
    \/ \E m \in 1..Len(nodes), n \in SymbolNames : NewSymbol(m, n)
    \/ \E v \in 1..Len(nodes) : VariableAddToContext(v)
    \/ \E m \in 1..Len(nodes), p \in ImportPaths, y \in ImportSymbols :
          AddImportCall(m, p, y)
    \/ \E m \in 1..Len(nodes) : ModuleOutput(m)

SpecModule == InitModule /\ [][NextModule]_vars


(***************************************************************************)
(* The class machine: a Class, Struct or Union is given attributes,        *)
(* methods, nested classes, constructors and destructors, and is emitted   *)
(***************************************************************************)

MaxMembers == 2

MaxParameters == 1

MaxRegistrations == 3

ClassKinds == {"Class", "Struct", "Union"}

IsClassLike(ns, k) == ns[k].kind \in ClassKinds

\* Class(context, name), Struct(context, name) or Union(context, name)
ClassLikeInit(kind, ns, context, name) ==
    IF kind = "Class" THEN ClassInit(ns, context, name)
    ELSE IF kind = "Struct" THEN StructInit(ns, context, name)
    ELSE UnionInit(ns, context, name)

AttributeNames == {sLowX, sLowY}

AttributeValues == {NoneExpr, Literal(sZero)}

\* The parameters the front-end declares: '<ctype> <name>'.
ParameterDecls == {[name |-> sP, ctype |-> sInt], [name |-> sQ, ctype |-> sFloat]}

BodyStatements == {Return}

\* The members built so far: everything but the module, the class Point and
\* the parameters.
Members(ns) == {d \in 3..Len(ns) : ns[d].kind # "Parameter"}

Parameters(ns) == {d \in 1..Len(ns) : ns[d].kind = "Parameter"}

\* The front-end has built module 'geometry' and in it a Class, Struct or Union
\* 'Point'.
InitClass ==
    /\ \E kind \in ClassKinds :
          LET n1 == <<ModuleInit(sGeometry, 0)>>
          IN nodes = Register(n1, 1, sPoint, ClassLikeInit(kind, n1, 1, sPoint))
    /\ last = NoCall
    /\ attached = <<>>
    /\ registered = <<>>

\* Attribute(k, name, value)
NewAttribute(k, name, value) ==
    /\ Alive
    /\ IsClassLike(nodes, k)
    /\ Cardinality(Members(nodes)) < MaxMembers
    /\ nodes' = Register(nodes, k, name, AttributeInit(k, name, value))
    /\ last' = [op |-> "Attribute", node |-> Len(nodes) + 1, status |-> "ok"]
    /\ UNCHANGED <<attached, registered>>

\* Attribute.add_to_context -> add_attribute of its Class, Struct or Union.
AttributeAddToContext(a) ==
    /\ Alive
    /\ nodes[a].kind = "Attribute"
    /\ nodes' = [nodes EXCEPT
                    ![nodes[a].context].attributes = ODSet(@, nodes[a].name, a)]
    /\ last' = [op |-> "add_attribute", node |-> a, status |-> "ok"]
    /\ UNCHANGED <<attached, registered>>

\* Method(k, name, pure_virtual, static)
NewMethod(k, name, pure_virtual, static) ==
    /\ Alive
    /\ IsClassLike(nodes, k)
    /\ Cardinality(Members(nodes)) < MaxMembers
    /\ nodes' = Register(nodes, k, name, MethodInit(k, name, pure_virtual, static))
    /\ last' = [op |-> "Method", node |-> Len(nodes) + 1, status |-> "ok"]
    /\ UNCHANGED <<attached, registered>>

\* Method.add_to_context -> add_method of its Class, Struct or Union.
MethodAddToContext(f) ==
    /\ Alive
    /\ nodes[f].kind = "Method"
    /\ nodes' = [nodes EXCEPT
                    ![nodes[f].context].methods = ODSet(@, nodes[f].name, f)]
    /\ last' = [op |-> "add_method", node |-> f, status |-> "ok"]
    /\ UNCHANGED <<attached, registered>>

\* Class(k, name): a class nested in k.
NewClass(k, name) ==
    /\ Alive
    /\ IsClassLike(nodes, k)
    /\ Cardinality(Members(nodes)) < MaxMembers
    /\ nodes' = Register(nodes, k, name, ClassInit(nodes, k, name))
    /\ last' = [op |-> "Class", node |-> Len(nodes) + 1, status |-> "ok"]
    /\ UNCHANGED <<attached, registered>>

\* Class.add_to_context -> add_declaration of its context: a Module files it
\* under declarations (its add_imports adds nothing), a Class or Struct under
\* classes; a Union has no add_declaration.
ClassAddToContext(c) ==
    /\ Alive
    /\ IsClassLike(nodes, c)
    /\ LET context == nodes[c].context
           kind == nodes[context].kind
       IN /\ nodes' =
                 IF kind = "Module"
                 THEN [nodes EXCEPT ![context].declarations = ODSet(@, nodes[c].name, c)]
                 ELSE IF kind \in {"Class", "Struct"}
                 THEN [nodes EXCEPT ![context].classes = ODSet(@, nodes[c].name, c)]
                 ELSE nodes
          /\ last' = [op |-> "add_declaration", node |-> c,
                      status |-> IF kind = "Union" THEN "AttributeError" ELSE "ok"]
    /\ UNCHANGED <<attached, registered>>

\* Constructor(k)
NewConstructor(k) ==
    /\ Alive
    /\ IsClassLike(nodes, k)
    /\ Cardinality(Members(nodes)) < MaxMembers
    /\ nodes' = Register(nodes, k, NoneStr, ConstructorInit(k))
    /\ last' = [op |-> "Constructor", node |-> Len(nodes) + 1, status |-> "ok"]
    /\ UNCHANGED <<attached, registered>>

\* Parameter(c, name, ctype, UNDEFINED)
NewParameter(c, decl) ==
    /\ Alive
    /\ nodes[c].kind = "Constructor"
    /\ Cardinality(Parameters(nodes)) < MaxParameters
    /\ nodes' = Register(nodes, c, decl.name,
                         ParameterInit(c, decl.name, decl.ctype, UNDEFINED))
    /\ last' = [op |-> "Parameter", node |-> Len(nodes) + 1, status |-> "ok"]
    /\ UNCHANGED <<attached, registered>>

\* Parameter.add_to_context -> Constructor.add_parameter; the front-end adds a
\* parameter once.
ParameterAddToContext(p) ==
    /\ Alive
    /\ nodes[p].kind = "Parameter"
    /\ \A i \in 1..Len(nodes[nodes[p].context].parameters) :
          nodes[nodes[p].context].parameters[i] # p
    /\ nodes' = [nodes EXCEPT ![nodes[p].context].parameters = Append(@, p)]
    /\ last' = [op |-> "add_parameter", node |-> p, status |-> "ok"]
    /\ UNCHANGED <<attached, registered>>

\* 'tuple(p.ctype for p in method.parameters)'
Signature(ns, c) ==
    [i \in 1..Len(ns[c].parameters) |-> ns[ns[c].parameters[i]].ctype]

\* A table that keeps the first value given for a key.
DictSetDefault(d, key, val) ==
    IF \E e \in d : e.k = key THEN d ELSE d \cup {[k |-> key, v |-> val]}

\* d[key] = val on a dict kept as a set of entries.
DictSet(d, key, val) == {e \in d : e.k # key} \cup {[k |-> key, v |-> val]}

\* Constructor.add_to_context -> add_constructor of its class: a Class keys it
\* by its signature, a Struct drops it with a diagnostic, a Union has no
\* add_constructor.
ConstructorAddToContext(c) ==
    /\ Alive
    /\ nodes[c].kind = "Constructor"
    /\ Len(registered) < MaxRegistrations
    /\ LET k == nodes[c].context
           kind == nodes[k].kind
       IN /\ nodes' =
                 IF kind = "Class"
                 THEN [nodes EXCEPT
                         ![k].constructors = DictSet(@, Signature(nodes, c), c)]
                 ELSE nodes
          /\ registered' =
                 IF kind = "Class"
                 THEN Append(registered,
                             [klass |-> k, constructor |-> c,
                              ctypes |-> [i \in 1..Len(nodes[c].parameters) |->
                                             nodes[nodes[c].parameters[i]].ctype]])
                 ELSE registered
          /\ last' = [op |-> "add_constructor", node |-> c,
                      status |-> IF kind = "Union" THEN "AttributeError" ELSE "ok"]
    /\ UNCHANGED attached

\* Destructor(k)
NewDestructor(k) ==
    /\ Alive
    /\ IsClassLike(nodes, k)
    /\ Cardinality(Members(nodes)) < MaxMembers
    /\ nodes' = Register(nodes, k, NoneStr, DestructorInit(k))
    /\ last' = [op |-> "Destructor", node |-> Len(nodes) + 1, status |-> "ok"]
    /\ UNCHANGED <<attached, registered>>

\* Destructor.add_statement(statement)
DestructorAddStatement(d, expr) ==
    /\ Alive
    /\ nodes[d].kind = "Destructor"
    /\ Len(nodes[d].statements) < MaxStatements
    /\ LET module == nodes[nodes[d].context].module
           r == ExprAddImports(nodes, module, expr)
       IN /\ nodes' =
                 [nodes EXCEPT
                    ![d].statements = Append(@, Resolved(expr, r)),
                    ![module].imports =
                        IF r.status = "ok" /\ r.add
                        THEN AddImport(@, r.path, r.symbol) ELSE @]
          /\ last' = [op |-> "add_statement", node |-> d, status |-> r.status]
          /\ attached' = Append(attached, [module |-> module, expr |-> expr])
    /\ UNCHANGED registered

\* A slot that keeps the destructor it holds.
AddDestructorKeep(ns, k, d) ==
    IF ns[k].destructor # 0
    THEN IF Len(ns[ns[k].destructor].statements) = 0
         THEN [status |-> "ok", destructor |-> ns[k].destructor]
         ELSE [status |-> "Exception", destructor |-> ns[k].destructor]
    ELSE [status |-> "ok", destructor |-> d]

\* Class.add_destructor and Struct.add_destructor: the slot after the call, or
\* Exception("Cannot handle multiple desructors").
AddDestructor(ns, k, d) ==
    IF ns[k].destructor # 0
    THEN IF Len(ns[ns[k].destructor].statements) = 0
         THEN [status |-> "ok", destructor |-> d]
         ELSE [status |-> "Exception", destructor |-> ns[k].destructor]
    ELSE [status |-> "ok", destructor |-> d]

\* Destructor.add_to_context -> add_destructor of its class; a Union has no
\* add_destructor. `before` is the slot as the call found it.
DestructorAddToContext(d) ==
    /\ Alive
    /\ nodes[d].kind = "Destructor"
    /\ LET k == nodes[d].context
       IN IF nodes[k].kind = "Union"
          THEN /\ nodes' = nodes
               /\ last' = [op |-> "add_destructor", node |-> d,
                           status |-> "AttributeError", before |-> 0]
          ELSE LET r == AddDestructor(nodes, k, d)
               IN /\ nodes' = [nodes EXCEPT ![k].destructor = r.destructor]
                  /\ last' = [op |-> "add_destructor", node |-> d,
                              status |-> r.status, before |-> nodes[k].destructor]
    /\ UNCHANGED <<attached, registered>>

\* k.output(out) against a fresh Writer: the tree is read, not changed; the
\* calls made are OutputDeclaration on this state.
ClassOutput(k) ==
    /\ Alive
    /\ IsClassLike(nodes, k)
    /\ last' = [op |-> "output", node |-> k,
                status |-> OutputDeclaration(nodes, k).status]
    /\ UNCHANGED <<nodes, attached, registered>>

\* The members of a class are built and filed, and the class is emitted.
NextClass ==
    \/ \E k \in 1..Len(nodes), n \in AttributeNames, v \in AttributeValues :
          NewAttribute(k, n, v)
    \/ \E a \in 1..Len(nodes) : AttributeAddToContext(a)
    \/ \E k \in 1..Len(nodes) : NewMethod(k, sF, FALSE, FALSE)
    \/ \E f \in 1..Len(nodes) : MethodAddToContext(f)
    \/ \E k \in 1..Len(nodes) : NewClass(k, sInner)
    \/ \E c \in 1..Len(nodes) : ClassAddToContext(c)
    \/ \E k \in 1..Len(nodes) : NewConstructor(k)
    \/ \E c \in 1..Len(nodes) : ConstructorAddToContext(c)
    \/ \E k \in 1..Len(nodes) : NewDestructor(k)
    \/ \E d \in 1..Len(nodes) : DestructorAddToContext(d)
    \/ \E k \in 1..Len(nodes) : ClassOutput(k)

SpecClass == InitClass /\ [][NextClass]_vars

\* Destructors are built, given their bodies and filed, and the class is emitted.
NextDestructor ==
    \/ \E k \in 1..Len(nodes) : NewDestructor(k)
    \/ \E d \in 1..Len(nodes), e \in BodyStatements : DestructorAddStatement(d, e)
    \/ \E d \in 1..Len(nodes) : DestructorAddToContext(d)
    \/ \E k \in 1..Len(nodes) : ClassOutput(k)

SpecDestructor == InitClass /\ [][NextDestructor]_vars

\* Constructors are built, given their parameters and filed, and the class is
\* emitted.
NextConstructor ==
    \/ \E k \in 1..Len(nodes) : NewConstructor(k)
    \/ \E c \in 1..Len(nodes), p \in ParameterDecls : NewParameter(c, p)
    \/ \E p \in 1..Len(nodes) : ParameterAddToContext(p)
    \/ \E c \in 1..Len(nodes) : ConstructorAddToContext(c)
    \/ \E k \in 1..Len(nodes) : ClassOutput(k)

SpecConstructor == InitClass /\ [][NextConstructor]_vars

(***************************************************************************)
(* Claims about lookup                                                     *)
(***************************************************************************)

\* The contexts from c up to the root, nearest first.
RECURSIVE Chain(_, _)
Chain(ns, c) == IF ns[c].context = 0 THEN <<c>> ELSE <<c>> \o Chain(ns, ns[c].context)

\* What the nearest table on the chain that holds `name` binds it to.
NearestBinding(ns, c, name) ==
    LET ch == Chain(ns, c)
        hit == {i \in 1..Len(ch) : ODHas(ns[ch[i]].names, name)}
    IN IF hit = {} THEN Raise("KeyError")
       ELSE LET i == CHOOSE j \in hit : \A k \in hit : j <= k
            IN Ok(ODGet(ns[ch[i]].names, name))

\* A descent that reads only the table of the context reached so far.
RECURSIVE StrictDescend(_, _, _)
StrictDescend(ns, decl, parts) ==
    IF Len(parts) = 0 THEN Ok(decl)
    ELSE IF ~IsContext(ns, decl) THEN Raise("TypeError")
    ELSE IF ~ODHas(ns[decl].names, Head(parts)) THEN Raise("KeyError")
    ELSE StrictDescend(ns, ODGet(ns[decl].names, Head(parts)), Tail(parts))

\* An identifier: no scope separator and no blank in it.
IsIdentifier(name) == ~Contains(name, <<58>>) /\ ~Contains(name, sSpace)

\* A name the descriptor stripping leaves as it is.
PlainName(name) == name # <<>> /\ IsIdentifier(name) /\ StripName(name) = name

Contexts(ns) == {c \in 1..Len(ns) : IsContext(ns, c)}

Modules(ns) == {c \in 1..Len(ns) : ns[c].kind = "Module"}

\* Module b is nested in module a and bound there under its name.
NestedIn(ns, b, a) ==
    /\ ns[b].context = a
    /\ PlainName(ns[b].name)
    /\ ODHas(ns[a].names, ns[b].name)
    /\ ODGet(ns[a].names, ns[b].name) = b

\* The declarations (name, node) that module b binds.
DeclaredIn(ns, b) ==
    {e \in {ns[b].names[i] : i \in 1..Len(ns[b].names)} : e.v # 0 /\ PlainName(e.k)}

\* C1 as stated: for nested modules A and A::B with declaration X in A::B, the
\* lookups "B::X" on A, "X" on A::B and "A::B::X" on the root all return X.
C1_Original ==
    \A a \in Modules(nodes), b \in Modules(nodes) :
        NestedIn(nodes, b, a) /\ PlainName(nodes[a].name) =>
            \A e \in DeclaredIn(nodes, b) :
                /\ GetItem(nodes, a, nodes[b].name \o sScope \o e.k) = Ok(e.v)
                /\ GetItem(nodes, b, e.k) = Ok(e.v)
                /\ GetItem(nodes, Root(nodes, a),
                           nodes[a].name \o sScope \o nodes[b].name \o sScope \o e.k)
                       = Ok(e.v)

\* C1 amended: a scoped name is resolved from the root and leaves the root's own
\* name out. For module B nested in module A and declaration X bound in B,
\* "X" on A::B returns X; when A is the root, "B::X" returns X on every context;
\* when A is a child of the root, "A::B::X" returns X on every context.
C1_RootRelative ==
    \A a \in Modules(nodes), b \in Modules(nodes) :
        NestedIn(nodes, b, a) =>
            \A e \in DeclaredIn(nodes, b) :
                /\ GetItem(nodes, b, e.k) = Ok(e.v)
                /\ nodes[a].context = 0 =>
                      \A c \in Contexts(nodes) :
                          GetItem(nodes, c, nodes[b].name \o sScope \o e.k) = Ok(e.v)
                /\ (nodes[a].context # 0 /\ nodes[nodes[a].context].context = 0
                        /\ NestedIn(nodes, a, nodes[a].context)) =>
                      \A c \in Contexts(nodes) :
                          GetItem(nodes, c,
                                  nodes[a].name \o sScope \o nodes[b].name \o sScope \o e.k)
                              = Ok(e.v)

\* C1's case: below a root R, module A holds module B, B holds X, and
\* "A::B::X" has just been looked up on B and returned X.
C1_Witness ==
    /\ last.op = "getitem"
    /\ last.name = sA \o sScope \o sB \o sScope \o sX
    /\ \E a \in Modules(nodes), b \in Modules(nodes) :
          /\ NestedIn(nodes, b, a) /\ nodes[a].context # 0
          /\ NestedIn(nodes, a, nodes[a].context)
          /\ nodes[a].name = sA /\ nodes[b].name = sB
          /\ last.ctx = b
          /\ \E e \in DeclaredIn(nodes, b) :
                e.k = sX /\ GetItem(nodes, last.ctx, last.name) = Ok(e.v)

\* C2 as stated: a scoped lookup fails as soon as a segment is not bound in the
\* table of the context the earlier segments reached, ancestors notwithstanding.
C2_NoBacktracking ==
    (last.op = "getitem" /\ Contains(StripName(last.name), sScope)) =>
        LET parts == Split(StripName(last.name), sScope)
        IN StrictDescend(nodes, Root(nodes, last.ctx), parts).status # "ok" =>
               GetItem(nodes, last.ctx, last.name).status # "ok"

\* C3 as stated: an unqualified lookup of an identifier returns what the nearest
\* context on the chain to the root binds it to, and fails exactly when none does.
C3_NearestBinding ==
    (last.op = "getitem" /\ IsIdentifier(last.name)) =>
        GetItem(nodes, last.ctx, last.name) = NearestBinding(nodes, last.ctx, last.name)

(***************************************************************************)
(* Claims about imports                                                    *)
(***************************************************************************)

\* The references whose add_imports ran against module m, in call order.
RefsAttached(m) == SelectSeq(attached, LAMBDA e : e.module = m)

\* The declaration a reference names: its parts followed from the root.
Named(ns, m, expr) == StrictDescend(ns, Root(ns, m), Split(expr.ref, sScope))

\* The reference names a symbol that module m itself declares (a variable
\* reference without scope names a local, which no module declares).
OwnRef(ns, m, expr) ==
    \/ expr.kind = "VariableReference" /\ ~Contains(expr.ref, sScope)
    \/ LET r == Named(ns, m, expr)
       IN /\ r.status = "ok" /\ r.node # 0
          /\ ns[r.node].kind # "Module"
          /\ OwningModule(ns, ns[r.node].context) = m

\* Modules m and n are distinct children of one module.
Siblings(ns, m, n) ==
    /\ m # n /\ ns[m].context # 0 /\ ns[m].context = ns[n].context
    /\ ns[m].name # ns[n].name
    /\ NestedIn(ns, m, ns[m].context) /\ NestedIn(ns, n, ns[n].context)

\* The names from below the root down to d, joined by '::'.
RECURSIVE RelName(_, _)
RelName(ns, d) ==
    IF ns[ns[d].context].context = 0 THEN ns[d].name
    ELSE RelName(ns, ns[d].context) \o sScope \o ns[d].name

\* The names from the root down to d, joined by '.'.
RECURSIVE DottedPath(_, _)
DottedPath(ns, d) ==
    IF ns[d].context = 0 THEN ns[d].name
    ELSE DottedPath(ns, ns[d].context) \o sDot \o ns[d].name

\* Module m has attached k >= 1 references and each of them is n::s.
OnlyRefsTo(ns, m, n, s) ==
    LET refs == RefsAttached(m)
    IN /\ Len(refs) >= 1
       /\ \A i \in 1..Len(refs) : refs[i].expr.ref = RelName(ns, n) \o sScope \o s

RECURSIVE ImportLines(_, _)
ImportLines(imports, paths) ==
    IF Len(paths) = 0 THEN <<>>
    ELSE LET path == Head(paths)
         IN << IF imports[path] = {NoneStr}
               THEN Write("import %s", <<path>>)
               ELSE Write("from %s import %s",
                          <<path, Join(SortStrs(imports[path]), sCommaSpace)>>),
               Call("clear_line") >>
            \o ImportLines(imports, Tail(paths))

\* Every path was recorded either without a symbol or with named symbols only.
Unmixed(imports) ==
    \A p \in DOMAIN imports : imports[p] = {NoneStr} \/ NoneStr \notin imports[p]

\* C5 as stated: Module.output writes the import lines in lexicographic order
\* of path, a bare 'import <path>' for a path recorded with no symbol and one
\* 'from <path> import ...' line, symbols sorted, for a path with named symbols.
C5_ImportLines ==
    (last.op = "output" /\ Unmixed(nodes[last.node].imports)) =>
        LET imports == nodes[last.node].imports
            lines == ImportLines(imports, SortStrs(DOMAIN imports))
            r == OutputModule(nodes, last.node)
        IN /\ r.status = "ok"
           /\ Len(r.calls) >= Len(lines)
           /\ SubSeq(r.calls, 1, Len(lines)) = lines

(***************************************************************************)
(* Claims about classes                                                    *)
(***************************************************************************)

\* `sub` occurs in `calls` as a run of consecutive elements.
HasRun(calls, sub) ==
    \E i \in 0..(Len(calls) - Len(sub)) : SubSeq(calls, i + 1, i + Len(sub)) = sub

\* The write calls among the calls, in order.
Writes(calls) == SelectSeq(calls, LAMBDA x : x.call = "write")

\* The destructor has a statement body.
Full(ns, d) == Len(ns[d].statements) > 0

\* n lines 'return', each begun on a fresh line.
RECURSIVE ReturnLines(_)
ReturnLines(n) ==
    IF n = 0 THEN <<>>
    ELSE <<Call("clear_line"), Write("return", <<>>), Call("clear_line")>>
         \o ReturnLines(n - 1)

\* The text of a destructor with n statements (n = 0: the placeholder).
DelBlock(n) ==
    <<Call("clear_minor_block"), Write("def __del__(self):", <<>>), Call("start_block")>>
    \o (IF n = 0 THEN <<Call("clear_line"), Write("pass", <<>>)>> ELSE ReturnLines(n))
    \o <<Call("end_block")>>

\* The last call registered a destructor with a Class or a Struct.
DestructorRegistered ==
    /\ last.op = "add_destructor"
    /\ nodes[nodes[last.node].context].kind \in {"Class", "Struct"}

\* C6: on a Class or Struct, registering a full-bodied destructor over an
\* empty-bodied one succeeds, the full-bodied one takes the slot and is the one
\* the class emits; registering a full-bodied destructor over a full-bodied one
\* raises the duplicate-destructor error and leaves the slot alone.
C6_DestructorMerge ==
    (DestructorRegistered /\ last.before # 0 /\ Full(nodes, last.node)) =>
        LET k == nodes[last.node].context
            r == OutputDeclaration(nodes, k)
        IN IF ~Full(nodes, last.before)
           THEN /\ last.status = "ok"
                /\ nodes[k].destructor = last.node
                /\ r.status = "ok"
                /\ HasRun(r.calls, DelBlock(Len(nodes[last.node].statements)))
                /\ ~HasRun(r.calls, DelBlock(0))
           ELSE /\ last.status = "Exception"
                /\ nodes[k].destructor = last.before

\* C6's case: a destructor with a body has just been registered with a class
\* whose slot held another, empty-bodied destructor, and now holds the slot.
C6_Witness ==
    /\ DestructorRegistered
    /\ last.status = "ok"
    /\ last.before # 0 /\ last.before # last.node
    /\ ~Full(nodes, last.before) /\ Full(nodes, last.node)
    /\ nodes[nodes[last.node].context].destructor = last.node

\* C7 as stated: add_destructor raises the duplicate-destructor error exactly
\* when the destructor in the slot and the incoming one both have statement
\* bodies; when either is an empty placeholder the call completes.
C7_DuplicateOnlyWhenBothFull ==
    DestructorRegistered =>
        (last.status # "ok") <=>
            (last.before # 0 /\ Full(nodes, last.before) /\ Full(nodes, last.node))

\* The add_constructor calls made on class k, in call order.
Registrations(k) == SelectSeq(registered, LAMBDA e : e.klass = k)

\* The constructor of the last registration with signature sig.
LastWith(regs, sig) ==
    regs[CHOOSE i \in 1..Len(regs) :
            /\ regs[i].ctypes = sig
            /\ \A j \in (i + 1)..Len(regs) : regs[j].ctypes # sig].constructor

\* The place of sig among the signatures in ascending order.
Rank(sigs, sig) == 1 + Cardinality({t \in sigs : SigLess(t, sig)})

\* The line that opens the text of constructor c.
InitHeader(ns, c) ==
    IF Len(ns[c].parameters) = 0 THEN Write("def __init__(self):", <<>>)
    ELSE Write("def __init__(self, %s):",
               <<Join([i \in 1..Len(ns[c].parameters) |-> ns[ns[c].parameters[i]].name],
                      sCommaSpace)>>)

\* The lines that open a constructor, in the order they were written.
InitHeaders(calls) ==
    SelectSeq(calls, LAMBDA x :
        x.call = "write" /\ x.fmt \in {"def __init__(self):", "def __init__(self, %s):"})

\* C8: the constructor table of a Class holds exactly one constructor per
\* signature registered (the parameter types at the time of the call), namely
\* the last one registered with it, and Class emission writes the constructors
\* in ascending order of signature.
C8_ConstructorTable ==
    \A k \in 1..Len(nodes) : nodes[k].kind = "Class" =>
        LET regs == Registrations(k)
            sigs == {regs[i].ctypes : i \in 1..Len(regs)}
            table == nodes[k].constructors
        IN /\ {e.k : e \in table} = sigs
           /\ Cardinality(table) = Cardinality(sigs)
           /\ \A e \in table : e.v = LastWith(regs, e.k)
           /\ (last.op = "output" /\ last.node = k) =>
                 LET r == OutputDeclaration(nodes, k)
                     hs == InitHeaders(r.calls)
                 IN /\ r.status = "ok"
                    /\ Len(hs) = Cardinality(sigs)
                    /\ \A e \in table : hs[Rank(sigs, e.k)] = InitHeader(nodes, e.v)

\* C8's case: a class with two signatures in its table, one of them registered
\* twice by different constructors, has just been emitted.
C8_Witness ==
    /\ last.op = "output" /\ last.status = "ok"
    /\ nodes[last.node].kind = "Class"
    /\ Cardinality(nodes[last.node].constructors) = 2
    /\ LET regs == Registrations(last.node)
       IN \E i \in 1..Len(regs), j \in 1..Len(regs) :
             /\ i < j
             /\ regs[i].ctypes = regs[j].ctypes
             /\ regs[i].constructor # regs[j].constructor

\* The class has no attributes, constructors, destructor, methods or nested
\* classes.
NoMembers(ns, k) ==
    /\ Len(ns[k].attributes) = 0 /\ Len(ns[k].methods) = 0 /\ Len(ns[k].classes) = 0
    /\ ns[k].kind # "Union" => ns[k].constructors = {} /\ ns[k].destructor = 0

\* The indentation level at which the i-th call is made.
Depth(calls, i) ==
    Cardinality({j \in 1..(i - 1) : calls[j].call = "start_block"})
    - Cardinality({j \in 1..(i - 1) : calls[j].call = "end_block"})

\* C9: emitting a Class, Struct or Union without members writes the class
\* line, opens one block, writes the single statement 'pass' inside it at
\* indentation level one, and after it does nothing but close.
C9_EmptyBody ==
    (last.op = "output" /\ NoMembers(nodes, last.node)) =>
        LET r == OutputDeclaration(nodes, last.node)
            calls == r.calls
        IN /\ r.status = "ok"
           /\ Len(calls) >= 6
           /\ SubSeq(calls, 1, 5) =
                 <<Call("clear_major_block"),
                   Write("class %s:", <<nodes[last.node].name>>),
                   Call("start_block"), Call("clear_line"), Write("pass", <<>>)>>
           /\ Depth(calls, 5) = 1
           /\ \A i \in 6..Len(calls) : calls[i].call = "end_block"

\* C9's case: a Union without members has just been emitted.
C9_Witness ==
    /\ last.op = "output" /\ last.status = "ok"
    /\ nodes[last.node].kind = "Union"
    /\ NoMembers(nodes, last.node)

\* Class 'Point' of module 'geometry' with the attributes x (no default) and
\* y (default 0), in this order, and nothing else.
IsPoint(ns, k) ==
    /\ ns[k].kind = "Class" /\ ns[k].name = sPoint
    /\ ns[ns[k].context].kind = "Module" /\ ns[ns[k].context].name = sGeometry
    /\ ns[k].constructors = {} /\ ns[k].destructor = 0
    /\ Len(ns[k].methods) = 0 /\ Len(ns[k].classes) = 0
    /\ Len(ns[k].attributes) = 2
    /\ ns[k].attributes[1].k = sLowX /\ ns[ns[k].attributes[1].v].value = NoneExpr
    /\ ns[k].attributes[2].k = sLowY /\ ns[ns[k].attributes[2].v].value = Literal(sZero)

\* What the initializer of Point writes: 'def __init__(self, x=None, y=None):',
\* 'self.x = x' and 'self.y = y if y else 0'.
PointInitializer ==
    <<Write("def __init__(self%s):",
            <<sCommaSpace \o sLowX \o sEqNone \o sCommaSpace \o sLowY \o sEqNone>>),
      Write("self.%s = ", <<sLowX>>), Write("%s", <<sLowX>>),
      Write("self.%s = ", <<sLowY>>), Write("%s if %s else ", <<sLowY, sLowY>>),
      Write("%s", <<sZero>>)>>

\* C10 as stated: emitting Point writes a class with a generated initializer
\* of two optional parameters that assigns self.x from x and self.y from y if
\* given, else 0.
C10_PointInitializer ==
    (last.op = "output" /\ IsPoint(nodes, last.node)) =>
        LET r == OutputDeclaration(nodes, last.node)
        IN /\ r.status = "ok"
           /\ r.calls[2] = Write("class %s:", <<sPoint>>)
           /\ HasRun(Writes(r.calls), PointInitializer)

(***************************************************************************)
(* The attachment machine: statements are added to a method that may or    *)
(* may not be filed into its class, and the class into its module          *)
(***************************************************************************)

AttachReferences ==
    { TypeReference(sN \o sScope \o sS), VariableReference(sM \o sScope \o sS) }

NextAttach ==
    \/ \E m \in 1..Len(nodes), n \in SymbolNames : NewSymbol(m, n)
    \/ \E f \in 1..Len(nodes), e \in AttachReferences : MethodAddStatement(f, e)
    \/ \E f \in 1..Len(nodes) : MethodAddToContext(f)
    \/ \E c \in 1..Len(nodes) : ClassAddToContext(c)

SpecAttach == InitImports /\ [][NextAttach]_vars

(***************************************************************************)
(* Claims about unattached nodes                                           *)
(***************************************************************************)

\* The values of an OrderedDict.
ODValues(od) == {od[i].v : i \in 1..Len(od)}

\* The methods, constructors and destructor filed into class k.
FiledBodies(ns, k) ==
    ODValues(ns[k].methods)
    \cup (IF ns[k].kind = "Union" THEN {}
          ELSE {e.v : e \in ns[k].constructors} \cup ({ns[k].destructor} \ {0}))

\* The statements reachable from the declarations module m emits.
ReachableStatements(ns, m) ==
    UNION { UNION { {ns[f].statements[i] : i \in 1..Len(ns[f].statements)} :
                      f \in FiledBodies(ns, k) } :
              k \in {d \in ODValues(ns[m].declarations) : IsClassLike(ns, d)} }

\* C11 as stated: every import entry of a module is required by a reference
\* that is reachable from the module's emitted declarations; statements added
\* to a method that is not filed leave the module's imports as they were.
C11_UnattachedNoImports ==
    \A m \in Modules(nodes) :
        \A path \in DOMAIN nodes[m].imports :
            \A symbol \in nodes[m].imports[path] :
                \E e \in ReachableStatements(nodes, m) :
                    LET r == ExprAddImports(nodes, m, e)
                    IN r.status = "ok" /\ r.add /\ r.path = path /\ r.symbol = symbol

(***************************************************************************)
(* Expressions: operations, casts, subscripts                              *)
(***************************************************************************)

sAmp == <<38>>                                \* '&'
sStar == <<42>>                               \* '*'
sBang == <<33>>                               \* '!'
sTilde == <<126>>                             \* '~'
sMinus == <<45>>                              \* '-'
sOne == <<49>>                                \* '1'

\* UnaryOperation.__init__
UnaryOperation(op, value) == [kind |-> "UnaryOperation", name |-> op, value |-> value]

\* BinaryOperation.__init__
BinaryOperation(lvalue, op, rvalue) ==
    [kind |-> "BinaryOperation", lvalue |-> lvalue, name |-> op, rvalue |-> rvalue]

\* ArraySubscript.__init__
ArraySubscript(value, index) ==
    [kind |-> "ArraySubscript", value |-> value, index |-> index]

\* Cast.__init__; the typekind is the name of the clang TypeKind.
Cast(typekind, value) == [kind |-> "Cast", typekind |-> typekind, value |-> value]

\* clean_argument: UnaryOperation strips '&' and '*' and cleans what they
\* wrap, Cast returns its value as it is, every other Expression returns self.
RECURSIVE CleanArgument(_)
CleanArgument(e) ==
    IF e.kind = "UnaryOperation"
    THEN IF e.name = sAmp THEN CleanArgument(e.value)
         ELSE IF e.name = sStar THEN CleanArgument(e.value)
         ELSE e
    ELSE IF e.kind = "Cast" THEN e.value
    ELSE e

(***************************************************************************)
(* The argument machine: an expression is wrapped in operations, casts and *)
(* subscripts, and cleaned for use as a call argument                      *)
(***************************************************************************)

MaxDepth == 3

Leaves == {Literal(sZero), Literal(sOne)}

WrapOps == {sAmp, sStar, sBang}

WrapKinds == {"INT", "POINTER"}

\* The number of wrappers around the leaf.
RECURSIVE DepthOf(_)
DepthOf(e) ==
    IF e.kind \in {"UnaryOperation", "Cast", "ArraySubscript"} THEN 1 + DepthOf(e.value)
    ELSE 0

\* The front-end holds one expression, a literal at first.
InitArgument ==
    /\ \E leaf \in Leaves : nodes = <<leaf>>
    /\ last = NoCall
    /\ attached = <<>>
    /\ registered = <<>>

\* UnaryOperation(op, e)
NewUnaryOperation(op) ==
    /\ DepthOf(nodes[1]) < MaxDepth
    /\ nodes' = <<UnaryOperation(op, nodes[1])>>
    /\ last' = [op |-> "UnaryOperation"]
    /\ UNCHANGED <<attached, registered>>

\* Cast(typekind, e)
NewCast(typekind) ==
    /\ DepthOf(nodes[1]) < MaxDepth
    /\ nodes' = <<Cast(typekind, nodes[1])>>
    /\ last' = [op |-> "Cast"]
    /\ UNCHANGED <<attached, registered>>

\* ArraySubscript(e, index)
NewArraySubscript(index) ==
    /\ DepthOf(nodes[1]) < MaxDepth
    /\ nodes' = <<ArraySubscript(nodes[1], index)>>
    /\ last' = [op |-> "ArraySubscript"]
    /\ UNCHANGED <<attached, registered>>

\* e.clean_argument(): the expression is read, not changed; the node returned
\* is CleanArgument on this state.
CleanArgumentCall ==
    /\ last' = [op |-> "clean_argument"]
    /\ UNCHANGED <<nodes, attached, registered>>

NextArgument ==
    \/ \E op \in WrapOps : NewUnaryOperation(op)
    \/ \E t \in WrapKinds : NewCast(t)
    \/ NewArraySubscript(Literal(sZero))
    \/ CleanArgumentCall

SpecArgument == InitArgument /\ [][NextArgument]_vars

\* An address-of or dereference operation.
IsIndirection(e) == e.kind = "UnaryOperation" /\ e.name \in {sAmp, sStar}

\* C12 as stated: clean_argument strips '&' and '*' wrappers recursively,
\* returns an ArraySubscript unchanged and unwraps a Cast to its value, and the
\* node it returns is never itself an '&' or '*' operation.
C12_CleanArgument ==
    last.op = "clean_argument" =>
        LET e == nodes[1]
            r == CleanArgument(e)
        IN /\ IsIndirection(e) => r = CleanArgument(e.value)
           /\ e.kind = "ArraySubscript" => r = e
           /\ e.kind = "Cast" => r = e.value
           /\ ~IsIndirection(r)

(***************************************************************************)
(* The operator machine: an expression is built from literals with unary   *)
(* and binary operations, and emitted                                      *)
(***************************************************************************)

MaxOperators == 2

sAndAnd == <<38, 38>>                         \* '&&'
sOrOr == <<124, 124>>                         \* '||'
sAt == <<64>>                                 \* '@', a token no table holds
sAndWord == <<32, 97, 110, 100, 32>>          \* ' and '
sOrWord == <<32, 111, 114, 32>>               \* ' or '
sNotWord == <<110, 111, 116, 32>>             \* 'not '

UnaryTokens == {sBang, sTilde, sMinus, sAt}

BinaryTokens == DOMAIN PythonBinaryOps \cup {sAt}

\* The number of operations in the expression.
RECURSIVE Operators(_)
Operators(e) ==
    IF e.kind = "UnaryOperation" THEN 1 + Operators(e.value)
    ELSE IF e.kind = "BinaryOperation" THEN 1 + Operators(e.lvalue) + Operators(e.rvalue)
    ELSE 0

\* UnaryOperation(op, e)
WrapUnaryOperation(op) ==
    /\ Operators(nodes[1]) < MaxOperators
    /\ nodes' = <<UnaryOperation(op, nodes[1])>>
    /\ last' = [op |-> "UnaryOperation"]
    /\ UNCHANGED <<attached, registered>>

\* BinaryOperation(e, op, rvalue)
WrapBinaryOperation(op, rvalue) ==
    /\ Operators(nodes[1]) < MaxOperators
    /\ nodes' = <<BinaryOperation(nodes[1], op, rvalue)>>
    /\ last' = [op |-> "BinaryOperation"]
    /\ UNCHANGED <<attached, registered>>

\* e.output(out) against a fresh Writer: the expression is read, not changed;
\* the calls made are OutputExpr on this state.
ExprOutput ==
    /\ last' = [op |-> "output", status |-> OutputExpr(nodes[1]).status]
    /\ UNCHANGED <<nodes, attached, registered>>

NextOperator ==
    \/ \E op \in UnaryTokens : WrapUnaryOperation(op)
    \/ \E op \in BinaryTokens : WrapBinaryOperation(op, Literal(sZero))
    \/ ExprOutput

SpecOperator == InitArgument /\ [][NextOperator]_vars

\* The text the calls write: what the write calls were given, joined.
RECURSIVE TextOf(_)
TextOf(calls) ==
    IF Len(calls) = 0 THEN <<>>
    ELSE (IF Head(calls).call = "write" /\ Head(calls).fmt = "%s"
          THEN Head(calls).args[1] ELSE <<>>) \o TextOf(Tail(calls))

ExprText(e) == TextOf(OutputExpr(e).calls)

\* The spelling C13 gives a binary token.
BinarySpelling(op) ==
    IF op = sAndAnd THEN sAndWord
    ELSE IF op = sOrOr THEN sOrWord
    ELSE IF op \in DOMAIN PythonBinaryOps THEN sSpace \o op \o sSpace
    ELSE op

\* The spelling C13 gives a unary token.
UnarySpelling(op) == IF op = sBang THEN sNotWord ELSE op

\* C13: a binary operation is written as its left side, the operator and its
\* right side, with '&&' written ' and ', '||' written ' or ', every other
\* operator of the table in its own symbols (set off by blanks) and any other
\* token unchanged; a unary operation as its operator, '!' written 'not ' and
\* every other token unchanged, and its operand; 1 && 0 is written '1 and 0'.
C13_OperatorTranslation ==
    last.op = "output" =>
        LET e == nodes[1]
        IN /\ last.status = "ok"
           /\ e.kind = "BinaryOperation" =>
                 ExprText(e) = ExprText(e.lvalue) \o BinarySpelling(e.name)
                                   \o ExprText(e.rvalue)
           /\ e.kind = "UnaryOperation" =>
                 ExprText(e) = UnarySpelling(e.name) \o ExprText(e.value)
           /\ e = BinaryOperation(Literal(sOne), sAndAnd, Literal(sZero)) =>
                 ExprText(e) = <<49, 32, 97, 110, 100, 32, 48>>

\* C13's case: BinaryOperation(Literal(1), '&&', Literal(0)) has just been
\* emitted.
C13_Witness ==
    /\ last.op = "output" /\ last.status = "ok"
    /\ nodes[1] = BinaryOperation(Literal(sOne), sAndAnd, Literal(sZero))

(***************************************************************************)
(* The emission machine: a module with imports and a class with methods    *)
(* is built and emitted, once or again                                     *)
(***************************************************************************)

\* The output routine of a module or of a declaration.
Output(ns, d) == IF ns[d].kind = "Module" THEN OutputModule(ns, d) ELSE OutputDeclaration(ns, d)

\* d.output(out) against a fresh Writer, whose calls are kept; nth tells
\* whether the emission before this call was of the same node (2) or not (1).
Emit(d) ==
    /\ Alive
    /\ nodes[d].kind = "Module" \/ IsClassLike(nodes, d)
    /\ LET r == Output(nodes, d)
       IN last' = [op |-> "output", node |-> d, status |-> r.status, calls |-> r.calls,
                   nth |-> IF last.op = "output" /\ last.node = d THEN 2 ELSE 1]
    /\ UNCHANGED <<nodes, attached, registered>>

NextEmission ==
    \/ \E m \in 1..Len(nodes), p \in ImportPaths, y \in SymbolNames : AddImportCall(m, p, y)
    \/ \E c \in 1..Len(nodes) : ClassAddToContext(c)
    \/ \E k \in 1..Len(nodes) : NewMethod(k, sF, FALSE, FALSE)
    \/ \E f \in 1..Len(nodes) : MethodAddToContext(f)
    \/ \E d \in 1..Len(nodes) : Emit(d)

SpecEmission == InitClass /\ [][NextEmission]_vars

HeaderOf(ns, d) ==
    IF ns[d].kind = "Variable" THEN Write("%s = ", <<ns[d].name>>)
    ELSE IF ns[d].kind = "Destructor" THEN Write("def __del__(self):", <<>>)
    ELSE IF ns[d].kind = "Method" THEN Write("def %s(self", <<ns[d].name>>)
    ELSE Write("class %s:", <<ns[d].name>>)

\* The place of the first call equal to w.
PlaceOf(calls, w) ==
    CHOOSE i \in 1..Len(calls) : calls[i] = w /\ \A j \in 1..(i - 1) : calls[j] # w

\* The directives given after the text of a began and before the text of b.
DirectivesBetween(ns, calls, a, b) ==
    {calls[j].call : j \in (PlaceOf(calls, HeaderOf(ns, a)) + 1)
                            ..(PlaceOf(calls, HeaderOf(ns, b)) - 1)}

\* The destructor, the nested classes and the methods of class k, in the
\* order of emission.
MemberSeq(ns, k) ==
    (IF ns[k].kind # "Union" /\ ns[k].destructor # 0 THEN <<ns[k].destructor>> ELSE <<>>)
    \o [i \in 1..Len(ns[k].classes) |-> ns[k].classes[i].v]
    \o [i \in 1..Len(ns[k].methods) |-> ns[k].methods[i].v]

\* C15 as stated: in the emission of a module every two consecutive
\* declarations have a clear_major_block between them; in the emission of a
\* class every two consecutive members have a clear_minor_block between them
\* and no clear_major_block.
C15_BlankLines ==
    (last.op = "output" /\ last.status = "ok") =>
        LET d == last.node
            calls == Output(nodes, d).calls
        IN IF nodes[d].kind = "Module"
           THEN \A i \in 1..(Len(nodes[d].declarations) - 1) :
                   "clear_major_block" \in
                       DirectivesBetween(nodes, calls, nodes[d].declarations[i].v,
                                         nodes[d].declarations[i + 1].v)
           ELSE \A i \in 1..(Len(MemberSeq(nodes, d)) - 1) :
                   LET between == DirectivesBetween(nodes, calls, MemberSeq(nodes, d)[i],
                                                    MemberSeq(nodes, d)[i + 1])
                   IN "clear_minor_block" \in between /\ "clear_major_block" \notin between

\* The declarations filed into a module, the nested classes and methods filed
\* into a class.
Filed(ns, k) ==
    IF ns[k].kind = "Module" THEN ODValues(ns[k].declarations)
    ELSE ODValues(ns[k].classes) \cup ODValues(ns[k].methods)

\* C16 as stated: members are emitted in the order in which they were
\* registered: when a step files a new member x into a module or class k, the
\* emission of k has every member filed before that step ahead of x, whatever
\* the kinds of the members.
C16_RegistrationOrder ==
    [][ \A k \in 1..Len(nodes) :
          (nodes[k].kind = "Module" \/ IsClassLike(nodes, k)) =>
             \A x \in Filed(nodes', k) \ Filed(nodes, k) :
                 LET r == Output(nodes', k)
                 IN r.status = "ok" =>
                       \A y \in Filed(nodes, k) \cap Filed(nodes', k) :
                           PlaceOf(r.calls, HeaderOf(nodes', y))
                               < PlaceOf(r.calls, HeaderOf(nodes', x)) ]_vars

(***************************************************************************)
(* The statement machine: functions, methods, constructors, destructors    *)
(* and blocks are built and given statements                               *)
(***************************************************************************)

\* Function.__init__: statements is None (written <<>>).
FunctionInit(context, name) ==
    [kind |-> "Function", context |-> context, name |-> name, names |-> <<>>,
     parameters |-> <<>>, statements |-> <<>>]

\* Block.__init__: no name; statements is the empty list.
BlockInit(context) ==
    [kind |-> "Block", context |-> context, name |-> NoneStr, names |-> <<>>,
     statements |-> <<>>]

StatementInputs == {Return, Literal(sZero)}

MaxBlocks == 1

Blocks(ns) == {d \in 1..Len(ns) : ns[d].kind = "Block"}

\* Function(m, name)
NewFunction(m, name) ==
    /\ Alive
    /\ nodes[m].kind = "Module"
    /\ Cardinality(Members(nodes)) < MaxMembers
    /\ nodes' = Register(nodes, m, name, FunctionInit(m, name))
    /\ last' = [op |-> "Function", node |-> Len(nodes) + 1, status |-> "ok"]
    /\ UNCHANGED <<attached, registered>>

\* Block(c)
NewBlock(c) ==
    /\ Alive
    /\ nodes[c].kind \in {"Function", "Method"}
    /\ Cardinality(Blocks(nodes)) < MaxBlocks
    /\ nodes' = Register(nodes, c, NoneStr, BlockInit(c))
    /\ last' = [op |-> "Block", node |-> Len(nodes) + 1, status |-> "ok"]
    /\ UNCHANGED <<attached, registered>>

\* Function.add_statement(statement): 'self.statements.append(statement)' on
\* the None that __init__ left there raises AttributeError; nothing after it
\* runs.
FunctionAddStatement(f, expr) ==
    /\ Alive
    /\ nodes[f].kind = "Function"
    /\ last' = [op |-> "add_statement", node |-> f, status |-> "AttributeError",
                expr |-> expr]
    /\ UNCHANGED <<nodes, attached, registered>>

\* Constructor.add_statement(statement)
ConstructorAddStatement(c, expr) ==
    /\ Alive
    /\ nodes[c].kind = "Constructor"
    /\ Len(nodes[c].statements) < MaxStatements
    /\ LET module == nodes[nodes[c].context].module
           r == ExprAddImports(nodes, module, expr)
       IN /\ nodes' =
                 [nodes EXCEPT
                    ![c].statements = Append(@, Resolved(expr, r)),
                    ![module].imports =
                        IF r.status = "ok" /\ r.add
                        THEN AddImport(@, r.path, r.symbol) ELSE @]
          /\ last' = [op |-> "add_statement", node |-> c, status |-> r.status,
                      expr |-> expr]
          /\ attached' = Append(attached, [module |-> module, expr |-> expr])
    /\ UNCHANGED registered

\* Block.add_statement(statement): appended; no imports are added.
BlockAddStatement(b, expr) ==
    /\ Alive
    /\ nodes[b].kind = "Block"
    /\ Len(nodes[b].statements) < MaxStatements
    /\ nodes' = [nodes EXCEPT ![b].statements = Append(@, expr)]
    /\ last' = [op |-> "add_statement", node |-> b, status |-> "ok", expr |-> expr]
    /\ UNCHANGED <<attached, registered>>

NextStatement ==
    \/ \E m \in 1..Len(nodes) : NewFunction(m, sF)
    \/ \E k \in 1..Len(nodes) : NewMethod(k, sF, FALSE, FALSE)
    \/ \E k \in 1..Len(nodes) : NewConstructor(k)
    \/ \E k \in 1..Len(nodes) : NewDestructor(k)
    \/ \E c \in 1..Len(nodes) : NewBlock(c)
    \/ \E f \in 1..Len(nodes), e \in StatementInputs : FunctionAddStatement(f, e)
    \/ \E f \in 1..Len(nodes), e \in StatementInputs : MethodAddStatement(f, e)
    \/ \E c \in 1..Len(nodes), e \in StatementInputs : ConstructorAddStatement(c, e)
    \/ \E d \in 1..Len(nodes), e \in StatementInputs : DestructorAddStatement(d, e)
    \/ \E b \in 1..Len(nodes), e \in StatementInputs : BlockAddStatement(b, e)

SpecStatement == InitClass /\ [][NextStatement]_vars

\* The statement the step's add_statement call was given.
Given == IF "expr" \in DOMAIN last' THEN last'.expr ELSE attached'[Len(attached')].expr

\* C17 as stated: add_statement on a Function, Method, Constructor, Destructor
\* or Block succeeds and appends: the list after the call is the list before
\* it (empty on a fresh node) followed by the statement given.
C17_StatementAccumulation ==
    [][ last'.op = "add_statement" =>
          /\ last'.status = "ok"
          /\ nodes'[last'.node].statements
                 = Append(nodes[last'.node].statements, Given) ]_vars

\* The number of calls of the given name among the calls.
Count(calls, name) == Cardinality({j \in 1..Len(calls) : calls[j].call = name})

\* C18 as stated: the emission of a class, struct or union that has just been
\* output closes as many blocks as it opens, and never closes a block it has
\* not opened.
C18_BalancedIndentation ==
    (last.op = "output" /\ last.status = "ok") =>
        LET calls == OutputDeclaration(nodes, last.node).calls
        IN /\ Count(calls, "end_block") = Count(calls, "start_block")
           /\ \A i \in 1..(Len(calls) + 1) : Depth(calls, i) >= 0

(***************************************************************************)
(* The block machine: a block is built for a method, given references and  *)
(* attached to the method, in either order                                 *)
(***************************************************************************)

\* A block as a statement of another body: the Block object itself.
BlockStatement(b) == [kind |-> "Block", node |-> b]

\* Block.add_imports(module) from its i-th statement on: add_imports of each
\* statement in turn; an exception ends the loop.
RECURSIVE BlockAddImports(_, _, _, _)
BlockAddImports(ns, module, b, i) ==
    IF i > Len(ns[b].statements) THEN [status |-> "ok", nodes |-> ns]
    ELSE LET e == ns[b].statements[i]
             r == ExprAddImports(ns, module, e)
         IN IF r.status # "ok" THEN [status |-> r.status, nodes |-> ns]
            ELSE BlockAddImports(
                     [ns EXCEPT ![b].statements[i] = Resolved(e, r),
                                ![module].imports =
                                    IF r.add THEN AddImport(@, r.path, r.symbol) ELSE @],
                     module, b, i + 1)

\* Method.add_statement(block): the block is appended, then block.add_imports
\* runs with the module of the method's class.
MethodAddBlock(f, b) ==
    /\ Alive
    /\ nodes[f].kind = "Method"
    /\ nodes[b].kind = "Block"
    /\ Len(nodes[f].statements) < MaxStatements
    /\ LET module == nodes[nodes[f].context].module
           appended == [nodes EXCEPT ![f].statements = Append(@, BlockStatement(b))]
           r == BlockAddImports(appended, module, b, 1)
       IN /\ nodes' = r.nodes
          /\ last' = [op |-> "add_statement", node |-> f, status |-> r.status,
                      expr |-> BlockStatement(b)]
          /\ attached' = Append(attached, [module |-> module, expr |-> BlockStatement(b)])
    /\ UNCHANGED registered

\* The block of a method is attached to that method, once.
NextBlock ==
    \/ \E m \in 1..Len(nodes), n \in SymbolNames : NewSymbol(m, n)
    \/ \E f \in 1..Len(nodes) : NewBlock(f)
    \/ \E b \in 1..Len(nodes), e \in AttachReferences : BlockAddStatement(b, e)
    \/ \E f \in {d \in 1..Len(nodes) : nodes[d].kind = "Method"}, b \in Blocks(nodes) :
          /\ nodes[b].context = f
          /\ \A i \in 1..Len(nodes[f].statements) :
                nodes[f].statements[i] # BlockStatement(b)
          /\ MethodAddBlock(f, b)
    \/ \E f \in 1..Len(nodes) : MethodAddToContext(f)
    \/ \E c \in 1..Len(nodes) : ClassAddToContext(c)

SpecBlock == InitImports /\ [][NextBlock]_vars

\* The statements of the blocks among the statements.
InBlocks(ns, stmts) ==
    UNION { {ns[e.node].statements[i] : i \in 1..Len(ns[e.node].statements)} :
              e \in {x \in stmts : x.kind = "Block"} }

\* C19 as stated: while no call has raised, every reference in a block that
\* is reachable from a declaration a module emits has had add_imports run on
\* it: its display name is set, and the import it needs is recorded in the
\* module; whether it was put into the block before or after the block was
\* attached to its method.
C19_ImportCompleteness ==
    Alive =>
        \A m \in Modules(nodes) :
            \A s \in InBlocks(nodes, ReachableStatements(nodes, m)) :
                s.kind \in {"VariableReference", "TypeReference"} =>
                    /\ s.module_name # NoneStr
                    /\ LET r == ExprAddImports(nodes, m, s)
                       IN (r.status = "ok" /\ r.add) =>
                              /\ r.path \in DOMAIN nodes[m].imports
                              /\ r.symbol \in nodes[m].imports[r.path]

(***************************************************************************)
(* Claims about the stability of name bindings                             *)
(***************************************************************************)

\* C20 as stated: no step removes a key from a context's name table, and a
\* declare(name) on a context that binds the name to a node leaves it bound
\* to a node.
C20_StableBindings ==
    [][ \A c \in Contexts(nodes) :
          \A n \in ODKeys(nodes[c].names) :
              /\ ODHas(nodes'[c].names, n)
              /\ (last'.op = "declare" /\ ODGet(nodes[c].names, n) # 0)
                    => ODGet(nodes'[c].names, n) # 0 ]_vars

====
